---- MODULE Spec2Model ----
(***************************************************************************)
(* Device/location symbol table, module/register resolver, numeral parser, *)
(* line tokenizer and word accessors of src/lib/hl_parser.py.              *)
(*                                                                         *)
(* Python strings that the code inspects character by character (device    *)
(* names, location keys, register names, operand text) are sequences of    *)
(* one-character strings.  Device type names are only ever compared as a   *)
(* whole and are plain strings.  A dict is a function; "k in d" is         *)
(* k \in DOMAIN d.                                                         *)
(***************************************************************************)
EXTENDS Integers, Sequences, FiniteSets, TLC

\* Largest number of successful DEVICE declarations explored in one pass.
MaxDevices == 2

----------------------------------------------------------------------------
\* Character helpers (Python's string module and str methods).

hexdigits ==
    << "0", "1", "2", "3", "4", "5", "6", "7", "8", "9",
       "a", "b", "c", "d", "e", "f", "A", "B", "C", "D", "E", "F" >>

ascii_lowercase ==
    << "a", "b", "c", "d", "e", "f", "g", "h", "i", "j", "k", "l", "m",
       "n", "o", "p", "q", "r", "s", "t", "u", "v", "w", "x", "y", "z" >>

ascii_uppercase ==
    << "A", "B", "C", "D", "E", "F", "G", "H", "I", "J", "K", "L", "M",
       "N", "O", "P", "Q", "R", "S", "T", "U", "V", "W", "X", "Y", "Z" >>

\* c in s, for a single character c
char_in(c, s) == \E i \in 1..Len(s) : s[i] = c

\* p in s, for strings (substring test; the empty string is in every string)
str_in(p, s) ==
    \E i \in 0..(Len(s) - Len(p)) : SubSeq(s, i + 1, i + Len(p)) = p

\* str.lower()
lower(s) ==
    [i \in 1..Len(s) |->
        IF char_in(s[i], ascii_uppercase)
        THEN ascii_lowercase[CHOOSE k \in 1..26 : ascii_uppercase[k] = s[i]]
        ELSE s[i]]

\* value of one hexadecimal digit
hex_digit_value(c) ==
    LET k == CHOOSE i \in 1..22 : hexdigits[i] = c
    IN  IF k <= 16 THEN k - 1 ELSE k - 7

\* int(s, 16) for a non-empty string of hexadecimal digits
RECURSIVE int16(_)
int16(s) ==
    IF Len(s) = 1 THEN hex_digit_value(s[1])
    ELSE 16 * int16(SubSeq(s, 1, Len(s) - 1)) + hex_digit_value(s[Len(s)])

\* str.split(sep, maxsplit) for a one-character separator
RECURSIVE split(_, _, _)
split(s, sep, maxsplit) ==
    IF maxsplit = 0 \/ ~char_in(sep, s) THEN << s >>
    ELSE LET k == CHOOSE i \in 1..Len(s) :
                      s[i] = sep /\ \A j \in 1..(i - 1) : s[j] # sep
         IN  << SubSeq(s, 1, k - 1) >>
                 \o split(SubSeq(s, k + 1, Len(s)), sep, maxsplit - 1)

----------------------------------------------------------------------------
\* Module-level tables.

device_types ==
    "tracker" :> 4 @@ "irtx" :> 5 @@ "irrx" :> 6 @@ "beeper" :> 7 @@
    "motor-a" :> 8 @@ "motor-b" :> 9 @@ "led" :> 10

device_storage ==
    "tracker" :> 4 + 0 @@ "irtx" :> 2 + 0 @@ "irrx" :> 5 + 0 @@
    "beeper" :> 7 + 0 @@ "motor-a" :> 5 + 4 @@ "motor-b" :> 5 + 4 @@
    "led" :> 4 + 0

special_names ==
    << << "_", "i", "n", "d", "e", "x" >>,
       << "_", "d", "e", "v", "i", "c", "e", "s" >>,
       << "_", "t", "i", "m", "e", "r", "s" >>,
       << "_", "c", "p", "u" >> >>

special_dtypes == << "index", "devices", "timers", "cpu" >>

reset_devices ==
    special_names[1] :> << "index", 12 >> @@
    special_names[2] :> << "devices", 13 >> @@
    special_names[3] :> << "timers", 14 >> @@
    special_names[4] :> << "cpu", 15 >>

reset_locations ==
    << "c" >> :> << "index", 12 >> @@ << "d" >> :> << "devices", 13 >> @@
    << "e" >> :> << "timers", 14 >> @@ << "f" >> :> << "cpu", 15 >>

\* register name -> (offset, size), per device type
tracker_registers ==
    << "s", "t", "a", "t", "u", "s" >> :> << 0, 1 >> @@
    << "o", "u", "t", "p", "u", "t" >> :> << 1, 1 >> @@
    << "l", "i", "g", "h", "t", "l", "e", "v", "e", "l" >> :> << 2, 2 >>

led_registers ==
    << "s", "t", "a", "t", "u", "s" >> :> << 0, 1 >> @@
    << "o", "u", "t", "p", "u", "t" >> :> << 1, 1 >> @@
    << "l", "i", "g", "h", "t", "l", "e", "v", "e", "l" >> :> << 2, 2 >>

beeper_registers ==
    << "s", "t", "a", "t", "u", "s" >> :> << 0, 1 >> @@
    << "a", "c", "t", "i", "o", "n" >> :> << 1, 1 >> @@
    << "f", "r", "e", "q" >> :> << 2, 2 >> @@
    << "d", "u", "r", "a", "t", "i", "o", "n" >> :> << 4, 2 >> @@
    << "t", "u", "n", "e", "c", "o", "d", "e" >> :> << 6, 1 >> @@
    << "t", "u", "n", "e", "s", "t", "r", "i", "n", "g" >> :> << 7, 1 >> @@
    << "t", "e", "m", "p", "o" >> :> << 8, 2 >>

irtx_registers ==
    << "a", "c", "t", "i", "o", "n" >> :> << 0, 1 >> @@
    << "c", "h", "a", "r" >> :> << 1, 1 >>

irrx_registers ==
    << "s", "t", "a", "t", "u", "s" >> :> << 0, 1 >> @@
    << "a", "c", "t", "i", "o", "n" >> :> << 1, 1 >> @@
    << "c", "h", "e", "c", "k" >> :> << 2, 1 >> @@
    << "m", "a", "t", "c", "h" >> :> << 3, 1 >> @@
    << "c", "h", "a", "r" >> :> << 4, 1 >>

motor_registers ==
    << "s", "t", "a", "t", "u", "s" >> :> << 0, 1 >> @@
    << "c", "o", "n", "t", "r", "o", "l" >> :> << 1, 1 >> @@
    << "d", "i", "s", "t", "a", "n", "c", "e" >> :> << 2, 2 >>

index_registers ==
    << "a", "c", "t", "i", "o", "n" >> :> << 0, 1 >> @@
    << "8", "b", "1", "c", "u", "r", "s", "o", "r" >> :> << 1, 1 >> @@
    << "8", "b", "1", "s", "t", "e", "p" >> :> << 2, 1 >> @@
    << "8", "b", "1", "w", "i", "n", "d", "o", "w" >> :> << 3, 1 >> @@
    << "8", "b", "2", "c", "u", "r", "s", "o", "r" >> :> << 4, 1 >> @@
    << "8", "b", "2", "s", "t", "e", "p" >> :> << 5, 1 >> @@
    << "1", "6", "b", "1", "c", "u", "r", "s", "o", "r" >> :> << 6, 1 >> @@
    << "1", "6", "b", "1", "s", "t", "e", "p" >> :> << 7, 1 >> @@
    << "1", "6", "b", "1", "w", "i", "n", "d", "o", "w" >> :> << 8, 2 >> @@
    << "1", "6", "b", "2", "c", "u", "r", "s", "o", "r" >> :> << 10, 1 >> @@
    << "1", "6", "b", "2", "s", "t", "e", "p" >> :> << 11, 1 >> @@
    << "1", "6", "b", "1", "t", "e", "m", "p" >> :> << 12, 2 >> @@
    << "1", "6", "b", "2", "t", "e", "m", "p" >> :> << 14, 2 >> @@
    << "8", "b", "1", "l", "o", "c", "a", "l" >> :> << 2, 1 >> @@
    << "1", "6", "b", "1", "l", "o", "c", "a", "l" >> :> << 4, 2 >> @@
    << "8", "b", "2", "l", "o", "c", "a", "l" >> :> << 7, 1 >> @@
    << "1", "6", "b", "2", "l", "o", "c", "a", "l" >> :> << 10, 2 >>

devices_registers ==
    << "s", "t", "a", "t", "u", "s" >> :> << 0, 1 >> @@
    << "r", "a", "n", "d", "o", "m" >> :> << 1, 1 >>

timers_registers ==
    << "s", "t", "a", "t", "u", "s" >> :> << 0, 1 >> @@
    << "a", "c", "t", "i", "o", "n" >> :> << 1, 1 >> @@
    << "p", "a", "u", "s", "e" >> :> << 2, 2 >> @@
    << "o", "n", "e", "s", "h", "o", "t" >> :> << 4, 2 >> @@
    << "s", "y", "s", "t", "e", "m" >> :> << 6, 4 >>

cpu_registers ==
    << "a", "c", "c" >> :> << 0, 2 >> @@
    << "f", "l", "a", "g", "s" >> :> << 2, 1 >> @@
    << "c", "o", "u", "n", "t", "e", "r" >> :> << 3, 1 >> @@
    << "p", "c" >> :> << 4, 2 >> @@
    << "s", "p" >> :> << 6, 2 >>

registers ==
    "tracker" :> tracker_registers @@ "led" :> led_registers @@
    "beeper" :> beeper_registers @@ "irtx" :> irtx_registers @@
    "irrx" :> irrx_registers @@
    "motor-a" :> motor_registers @@ "motor-b" :> motor_registers @@
    "index" :> index_registers @@ "devices" :> devices_registers @@
    "timers" :> timers_registers @@ "cpu" :> cpu_registers

----------------------------------------------------------------------------
\* Outcomes.  An operation either returns (kind "ok") or raises: through
\* AsmError_NO_RET with the number it reports, or with a KeyError or
\* ValueError of the interpreter.

NoName == << >>          \* name=None (an empty name behaves the same way)

Returned == [kind |-> "ok", code |-> 0]

AsmError_NO_RET(number) == [kind |-> "AsmError", code |-> number]

KeyError == [kind |-> "KeyError", code |-> 0]

ValueError == [kind |-> "ValueError", code |-> 0]

\* d[k] = v on a dict
dict_set(d, k, v) == (k :> v) @@ d

----------------------------------------------------------------------------
\* reset_devices_and_locations(): clear both tables, then copy the baseline.

\* variant: the baseline is copied over the tables without clearing them
reset_without_clear(devs, locs) ==
    [devices |-> reset_devices @@ devs, locations |-> reset_locations @@ locs]

reset_devices_and_locations(devs, locs) ==
    [devices |-> reset_devices, locations |-> reset_locations]

----------------------------------------------------------------------------
\* add_device(loc, dtype, name), on tables devs (devices) and locs (locations).

\* loc < 0 or loc > 11
loc_out_of_range(loc) == loc < 0 \/ loc > 11

\* loc_hex = string.hexdigits[loc]
loc_hex(loc) == << hexdigits[loc + 1] >>

\* variant: a continuation marker does not count as a use of the location
location_used_unless_marker(locs, loc) ==
    /\ loc_hex(loc) \in DOMAIN locs
    /\ locs[loc_hex(loc)][1] # "motor_second"

\* loc_hex in locations
location_used(locs, loc) == loc_hex(loc) \in DOMAIN locs

\* variant: the name is kept as written
name_as_written(name) == name

\* if (name): name = name.lower()
lowered_name(name) == IF name # NoName THEN lower(name) ELSE name

\* name in special_names
name_is_special(name) == \E i \in 1..Len(special_names) : special_names[i] = name

\* variant: the comparison with location 0 is inverted
tracker_misplaced_inverted(dtype, loc) == dtype = "tracker" /\ loc = 0

\* dtype == 'tracker' and loc != 0
tracker_misplaced(dtype, loc) == dtype = "tracker" /\ loc # 0

\* variant: no wrap from location 11 to location 0
motor_second_loc_no_wrap(loc) == loc + 1

\* the second location of a motor
motor_second_loc(loc) == IF loc = 11 THEN 0 ELSE loc + 1

\* variant: the second location is bound before it is checked
motor_second_bound_first(locs, dtype, loc) ==
    IF dtype = "motor-a" \/ dtype = "motor-b"
    THEN LET second == motor_second_loc(loc)
             bound == dict_set(locs, loc_hex(second), << "motor_second", second >>)
         IN  IF loc_hex(second) \in DOMAIN locs
             THEN [res |-> AsmError_NO_RET(206), locations |-> bound]
             ELSE [res |-> Returned, locations |-> bound]
    ELSE [res |-> Returned, locations |-> locs]

\* variant: the second location of a motor is checked but not bound
motor_second_not_bound(locs, dtype, loc) ==
    IF dtype = "motor-a" \/ dtype = "motor-b"
    THEN IF loc_hex(motor_second_loc(loc)) \in DOMAIN locs
         THEN [res |-> AsmError_NO_RET(206), locations |-> locs]
         ELSE [res |-> Returned, locations |-> locs]
    ELSE [res |-> Returned, locations |-> locs]

\* the "motors need two spots" block: the outcome and locations after it
motor_second_block(locs, dtype, loc) ==
    IF dtype = "motor-a" \/ dtype = "motor-b"
    THEN LET second == motor_second_loc(loc)
         IN  IF loc_hex(second) \in DOMAIN locs
             THEN [res |-> AsmError_NO_RET(206), locations |-> locs]
             ELSE [res |-> Returned,
                   locations |->
                       dict_set(locs, loc_hex(second), << "motor_second", second >>)]
    ELSE [res |-> Returned, locations |-> locs]

add_device(devs, locs, loc, dtype, name) ==
    LET failed(number) ==
            [res |-> AsmError_NO_RET(number), devices |-> devs, locations |-> locs]
        lname == lowered_name(name)
    IN  IF dtype \notin DOMAIN device_types THEN failed(200)
        ELSE IF loc_out_of_range(loc) THEN failed(201)
        ELSE IF location_used(locs, loc) THEN failed(202)
        ELSE IF name_is_special(lname) THEN failed(203)
        ELSE IF lname \in DOMAIN devs THEN failed(204)
        ELSE IF tracker_misplaced(dtype, loc) THEN failed(205)
        ELSE LET m == motor_second_block(locs, dtype, loc)
             IN  IF m.res.kind # "ok"
                 THEN [res |-> m.res, devices |-> devs, locations |-> m.locations]
                 ELSE [res |-> Returned,
                       devices |->
                           IF lname # NoName
                           THEN dict_set(devs, lname, << dtype, loc >>)
                           ELSE devs,
                       locations |->
                           dict_set(m.locations, loc_hex(loc), << dtype, loc >>)]

----------------------------------------------------------------------------
\* get_location_type_and_size(location)

\* variant: the pair is returned in the other order
get_location_size_and_type(locs, location) ==
    LET h == loc_hex(location)
    IN  IF h \in DOMAIN locs /\ locs[h][1] # "motor_second"
        THEN LET dtype == locs[h][1]
             IN  IF dtype \in DOMAIN device_types
                 THEN [res |-> Returned,
                       pair |-> << device_storage[dtype], device_types[dtype] >>]
                 ELSE [res |-> KeyError, pair |-> << 0, 0 >>]
        ELSE [res |-> Returned, pair |-> << 0, 0 >>]

get_location_type_and_size(locs, location) ==
    LET h == loc_hex(location)
    IN  IF h \in DOMAIN locs /\ locs[h][1] # "motor_second"
        THEN LET dtype == locs[h][1]
             IN  IF dtype \in DOMAIN device_types
                 THEN [res |-> Returned,
                       pair |-> << device_types[dtype], device_storage[dtype] >>]
                 ELSE [res |-> KeyError, pair |-> << 0, 0 >>]
        ELSE [res |-> Returned, pair |-> << 0, 0 >>]

----------------------------------------------------------------------------
\* parse_mod_reg(smodreg)

\* variant: the location is shifted by three bits
modreg_num_shift3(offset, loc) == offset + loc * 8

\* offset + (loc << 4)
modreg_num(offset, loc) == offset + loc * 16

\* variant: locations are looked up before device names
lookup_module_locations_first(devs, locs, subject) ==
    IF subject \in DOMAIN locs
    THEN [found |-> TRUE, dtype |-> locs[subject][1], loc |-> locs[subject][2]]
    ELSE IF subject \in DOMAIN devs
    THEN [found |-> TRUE, dtype |-> devs[subject][1], loc |-> devs[subject][2]]
    ELSE [found |-> FALSE, dtype |-> "", loc |-> 0]

\* the module part: a device name first, else a location
lookup_module(devs, locs, subject) ==
    IF subject \in DOMAIN devs
    THEN [found |-> TRUE, dtype |-> devs[subject][1], loc |-> devs[subject][2]]
    ELSE IF subject \in DOMAIN locs
    THEN [found |-> TRUE, dtype |-> locs[subject][1], loc |-> locs[subject][2]]
    ELSE [found |-> FALSE, dtype |-> "", loc |-> 0]

\* the register part, for a module of type dtype at loc
lookup_register(dtype, loc, reg) ==
    IF dtype \notin DOMAIN registers THEN [res |-> KeyError, num |-> 0]
    ELSE LET regs == registers[dtype]
         IN  IF reg \in DOMAIN regs
             THEN [res |-> Returned, num |-> modreg_num(regs[reg][1], loc)]
             ELSE IF str_in(reg, SubSeq(hexdigits, 1, 16))
             THEN IF reg = << >>
                  THEN [res |-> ValueError, num |-> 0]
                  ELSE [res |-> Returned, num |-> modreg_num(int16(reg), loc)]
             ELSE [res |-> AsmError_NO_RET(214), num |-> 0]

\* variant: a text without ':' is taken as a module name
parse_mod_reg_no_colon_test(devs, locs, smodreg) ==
    IF Len(smodreg) = 2 /\ char_in(smodreg[1], hexdigits)
                        /\ char_in(smodreg[2], hexdigits)
    THEN [res |-> Returned, num |-> int16(smodreg)]
    ELSE LET part == split(lower(smodreg), ":", 2)
         IN  IF Len(part) > 2
             THEN [res |-> AsmError_NO_RET(212), num |-> 0]
             ELSE LET m == lookup_module(devs, locs, part[1])
                  IN  IF m.found
                      THEN lookup_register(m.dtype, m.loc,
                                           IF Len(part) = 2 THEN part[2] ELSE << "0" >>)
                      ELSE [res |-> AsmError_NO_RET(213), num |-> 0]

parse_mod_reg(devs, locs, smodreg) ==
    IF Len(smodreg) = 2 /\ char_in(smodreg[1], hexdigits)
                        /\ char_in(smodreg[2], hexdigits)
    THEN [res |-> Returned, num |-> int16(smodreg)]
    ELSE IF char_in(":", smodreg)
    THEN LET part == split(lower(smodreg), ":", 2)
         IN  IF Len(part) # 2
             THEN [res |-> AsmError_NO_RET(212), num |-> 0]
             ELSE LET m == lookup_module(devs, locs, part[1])
                  IN  IF m.found
                      THEN lookup_register(m.dtype, m.loc, part[2])
                      ELSE [res |-> AsmError_NO_RET(213), num |-> 0]
    ELSE [res |-> AsmError_NO_RET(215), num |-> 0]

----------------------------------------------------------------------------
\* Values and built-ins of the interpreter that the numeral parser, the
\* tokenizer and the word accessors rest on.

TypeError == [kind |-> "TypeError", code |-> 0]

AttributeError == [kind |-> "AttributeError", code |-> 0]

\* a value held or returned by a word: a str, an int, or None
StrVal(s) == [py |-> "str", s |-> s, n |-> 0]

IntVal(n) == [py |-> "int", s |-> << >>, n |-> n]

None == [py |-> "None", s |-> << >>, n |-> 0]

\* s.startswith(p) and s.endswith(p)
startswith(s, p) == Len(s) >= Len(p) /\ SubSeq(s, 1, Len(p)) = p

endswith(s, p) == Len(s) >= Len(p) /\ SubSeq(s, Len(s) - Len(p) + 1, Len(s)) = p

\* code points of the characters other than letters and digits
punctuation_ord ==
    "\t" :> 9 @@ "\n" :> 10 @@ " " :> 32 @@ "\"" :> 34 @@ "#" :> 35 @@
    "$" :> 36 @@ "%" :> 37 @@ "'" :> 39 @@ "," :> 44 @@ "/" :> 47 @@
    ":" :> 58 @@ "@" :> 64 @@ "\\" :> 92 @@ "_" :> 95

\* ord(c) of one character
ord(c) ==
    IF char_in(c, ascii_lowercase)
    THEN 96 + (CHOOSE k \in 1..26 : ascii_lowercase[k] = c)
    ELSE IF char_in(c, ascii_uppercase)
    THEN 64 + (CHOOSE k \in 1..26 : ascii_uppercase[k] = c)
    ELSE IF char_in(c, SubSeq(hexdigits, 1, 10))
    THEN 48 + hex_digit_value(c)
    ELSE punctuation_ord[c]

\* str.strip() of blanks, as int() does before it reads the digits
RECURSIVE strip(_)
strip(s) ==
    IF s = << >> THEN s
    ELSE IF s[1] \in { " ", "\t", "\n" } THEN strip(Tail(s))
    ELSE IF s[Len(s)] \in { " ", "\t", "\n" } THEN strip(SubSeq(s, 1, Len(s) - 1))
    ELSE s

\* s is a non-empty string of digits of the base
digits_of_base(s, base) ==
    /\ s # << >>
    /\ \A i \in 1..Len(s) :
           char_in(s[i], hexdigits) /\ hex_digit_value(s[i]) < base

\* the number a string of digits of the base denotes
RECURSIVE digits_value(_, _)
digits_value(s, base) ==
    IF s = << >> THEN 0
    ELSE base * digits_value(SubSeq(s, 1, Len(s) - 1), base)
             + hex_digit_value(s[Len(s)])

\* int(s, base) for base 0, 2, 10 or 16 and a text without sign or underscore:
\* blanks around the digits are dropped; a prefix 0x, 0o or 0b selects the
\* base when base is 0 and is allowed when it names the base; without a
\* prefix base 0 reads a decimal numeral, which has no leading zero
int(s, base) ==
    LET t == strip(s)
        prefixed(p) == Len(t) >= 2 /\ t[1] = "0" /\ lower(<< t[2] >>) = << p >>
        named == IF prefixed("x") THEN 16
                 ELSE IF prefixed("o") THEN 8
                 ELSE IF prefixed("b") THEN 2
                 ELSE 0
        read(d, b) == IF digits_of_base(d, b)
                      THEN [res |-> Returned, num |-> digits_value(d, b)]
                      ELSE [res |-> ValueError, num |-> 0]
    IN  IF base = 0
        THEN IF named # 0 THEN read(SubSeq(t, 3, Len(t)), named)
             ELSE IF digits_of_base(t, 10) /\ t[1] = "0"
                         /\ \E i \in 1..Len(t) : t[i] # "0"
             THEN [res |-> ValueError, num |-> 0]
             ELSE read(t, 10)
        ELSE IF named = base /\ digits_of_base(SubSeq(t, 3, Len(t)), base)
        THEN read(SubSeq(t, 3, Len(t)), base)
        ELSE read(t, base)

----------------------------------------------------------------------------
\* parse_bases(snum, string=False)

parse_bases(snum, string) ==
    IF startswith(snum, << "'" >>) /\ endswith(snum, << "'" >>)
    THEN IF Len(snum) = 3
         THEN [res |-> Returned, num |-> ord(snum[2])]
         ELSE [res |-> TypeError, num |-> 0]
    ELSE IF string /\ startswith(snum, << "\"" >>) /\ endswith(snum, << "\"" >>)
    THEN [res |-> AsmError_NO_RET(211), num |-> 0]
    ELSE IF endswith(snum, << "/", "2" >>)
    THEN int(SubSeq(snum, 1, Len(snum) - 2), 2)
    ELSE IF endswith(snum, << "/", "1", "0" >>)
    THEN int(SubSeq(snum, 1, Len(snum) - 3), 10)
    ELSE IF endswith(snum, << "/", "1", "6" >>)
    THEN int(SubSeq(snum, 1, Len(snum) - 3), 16)
    ELSE int(snum, 0)

----------------------------------------------------------------------------
\* class word: a type and a value, and the accessors of the value.

word(type, value) == [type_ |-> type, value_ |-> value]

\* num(): no test of the type; parse_bases calls snum.startswith, which an
\* int does not have
num(w) ==
    IF w.value_.py # "str" THEN [res |-> AttributeError, val |-> None]
    ELSE LET r == parse_bases(w.value_.s, FALSE)
         IN  [res |-> r.res, val |-> IF r.res.kind = "ok" THEN IntVal(r.num) ELSE None]

anum(w) ==
    IF w.type_ \notin { "arg", "const" }
    THEN [res |-> AsmError_NO_RET(207), val |-> None]
    ELSE IF w.type_ = "const" THEN [res |-> Returned, val |-> w.value_]
    ELSE num(w)

astr(w) ==
    IF w.type_ \notin { "arg", "string" }
    THEN [res |-> AsmError_NO_RET(208), val |-> None]
    ELSE IF w.value_.py # "str" THEN [res |-> TypeError, val |-> None]
    ELSE IF Len(w.value_.s) > 0
    THEN IF ~char_in(w.value_.s[1], ascii_lowercase \o ascii_uppercase \o << "_" >>)
         THEN [res |-> AsmError_NO_RET(209), val |-> None]
         ELSE [res |-> Returned, val |-> w.value_]
    ELSE [res |-> Returned, val |-> None]

amodreg(devs, locs, w) ==
    IF w.type_ \notin { "arg", "modreg" }
    THEN [res |-> AsmError_NO_RET(210), val |-> None]
    ELSE IF w.type_ = "modreg" THEN [res |-> Returned, val |-> w.value_]
    ELSE IF w.value_.py # "str" THEN [res |-> TypeError, val |-> None]
    ELSE LET r == parse_mod_reg(devs, locs, w.value_.s)
         IN  [res |-> r.res, val |-> IF r.res.kind = "ok" THEN IntVal(r.num) ELSE None]

----------------------------------------------------------------------------
\* prechop_line(line): the segments of a line.  The loop's variables are a
\* record; stopped is the loop's break.

prechop_start ==
    [in_string |-> "", in_escape |-> FALSE, components |-> << >>,
     comp |-> << >>, stopped |-> FALSE]

\* variant: '#' is an ordinary character
prechop_step_hash_kept(st, c) ==
    IF st.stopped THEN st
    ELSE IF c = "\n" THEN [st EXCEPT !.stopped = TRUE]
    ELSE IF st.in_escape
    THEN [st EXCEPT !.comp = Append(@, c), !.in_escape = FALSE]
    ELSE IF st.in_string # "" /\ c = "\\" THEN [st EXCEPT !.in_escape = TRUE]
    ELSE IF st.in_string = "" /\ c \in { "\"" }
    THEN [st EXCEPT !.in_string = c, !.comp = Append(@, c)]
    ELSE IF st.in_string # "" /\ c = st.in_string
    THEN [st EXCEPT !.in_string = "", !.comp = Append(@, c)]
    ELSE IF st.in_string = "" /\ c \in { " ", "\t", "," }
    THEN [st EXCEPT !.components = IF st.comp # << >> THEN Append(@, st.comp) ELSE @,
                    !.comp = << >>]
    ELSE [st EXCEPT !.comp = Append(@, c)]

\* variant: a backslash inside a string is an ordinary character
prechop_step_no_escape(st, c) ==
    IF st.stopped THEN st
    ELSE IF c = "\n" THEN [st EXCEPT !.stopped = TRUE]
    ELSE IF c = "#" /\ st.in_string = "" THEN [st EXCEPT !.stopped = TRUE]
    ELSE IF st.in_string = "" /\ c \in { "\"" }
    THEN [st EXCEPT !.in_string = c, !.comp = Append(@, c)]
    ELSE IF st.in_string # "" /\ c = st.in_string
    THEN [st EXCEPT !.in_string = "", !.comp = Append(@, c)]
    ELSE IF st.in_string = "" /\ c \in { " ", "\t", "," }
    THEN [st EXCEPT !.components = IF st.comp # << >> THEN Append(@, st.comp) ELSE @,
                    !.comp = << >>]
    ELSE [st EXCEPT !.comp = Append(@, c)]

\* variant: a backslash escapes the next character outside a string as well
prechop_step_escape_anywhere(st, c) ==
    IF st.stopped THEN st
    ELSE IF c = "\n" THEN [st EXCEPT !.stopped = TRUE]
    ELSE IF st.in_escape
    THEN [st EXCEPT !.comp = Append(@, c), !.in_escape = FALSE]
    ELSE IF c = "\\" THEN [st EXCEPT !.in_escape = TRUE]
    ELSE IF c = "#" /\ st.in_string = "" THEN [st EXCEPT !.stopped = TRUE]
    ELSE IF st.in_string = "" /\ c \in { "\"" }
    THEN [st EXCEPT !.in_string = c, !.comp = Append(@, c)]
    ELSE IF st.in_string # "" /\ c = st.in_string
    THEN [st EXCEPT !.in_string = "", !.comp = Append(@, c)]
    ELSE IF st.in_string = "" /\ c \in { " ", "\t", "," }
    THEN [st EXCEPT !.components = IF st.comp # << >> THEN Append(@, st.comp) ELSE @,
                    !.comp = << >>]
    ELSE [st EXCEPT !.comp = Append(@, c)]

\* one pass of "for c in line"
prechop_step(st, c) ==
    IF st.stopped THEN st
    ELSE IF c = "\n" THEN [st EXCEPT !.stopped = TRUE]
    ELSE IF st.in_escape
    THEN [st EXCEPT !.comp = Append(@, c), !.in_escape = FALSE]
    ELSE IF st.in_string # "" /\ c = "\\" THEN [st EXCEPT !.in_escape = TRUE]
    ELSE IF c = "#" /\ st.in_string = "" THEN [st EXCEPT !.stopped = TRUE]
    ELSE IF st.in_string = "" /\ c \in { "\"" }
    THEN [st EXCEPT !.in_string = c, !.comp = Append(@, c)]
    ELSE IF st.in_string # "" /\ c = st.in_string
    THEN [st EXCEPT !.in_string = "", !.comp = Append(@, c)]
    ELSE IF st.in_string = "" /\ c \in { " ", "\t", "," }
    THEN [st EXCEPT !.components = IF st.comp # << >> THEN Append(@, st.comp) ELSE @,
                    !.comp = << >>]
    ELSE [st EXCEPT !.comp = Append(@, c)]

\* the loop over the characters of the line (the variables after one pass are
\* bound as a value before the next pass reads them)
RECURSIVE prechop_loop(_, _)
prechop_loop(st, line) ==
    IF line = << >> THEN st
    ELSE CHOOSE out \in { prechop_loop(after, Tail(line)) :
                              after \in { prechop_step(st, Head(line)) } } : TRUE

prechop_line(line) ==
    LET st == prechop_loop(prechop_start, line)
    IN  IF st.comp # << >> THEN Append(st.components, st.comp) ELSE st.components

----------------------------------------------------------------------------
\* chop_line(line): the words of a line.

\* one pass of "for s in segs" with the words made so far: the outcome, the
\* words after it, and whether the pass left the loop at a '#'
chop_seg(devs, locs, words, s) ==
    LET next(ws) == [res |-> Returned, words |-> ws, hash_break |-> FALSE]
        raised(res) == [res |-> res, words |-> << >>, hash_break |-> FALSE]
    IN  IF s = << >> THEN next(words)
        ELSE IF startswith(s, << "#" >>)
        THEN [res |-> Returned, words |-> words, hash_break |-> TRUE]
        ELSE IF startswith(s, << ":" >>)
        THEN next(Append(words, word("label", StrVal(Tail(s)))))
        ELSE IF words = << >>
        THEN next(Append(words, word("op", StrVal(s))))
        ELSE IF \/ startswith(s, << "\"" >>) /\ endswith(s, << "\"" >>)
                \/ startswith(s, << "'" >>) /\ endswith(s, << "'" >>)
        THEN IF Len(s) <= 2 THEN next(words)
             ELSE next(Append(words,
                              word("string", StrVal(SubSeq(s, 2, Len(s) - 1)))))
        ELSE IF startswith(s, << "$" >>)
        THEN IF Len(s) = 4 /\ s[2] = "'" /\ s[4] = "'"
             THEN next(Append(words, word("const", IntVal(ord(s[3])))))
             ELSE LET r == parse_bases(Tail(s), FALSE)
                  IN  IF r.res.kind # "ok" THEN raised(r.res)
                      ELSE next(Append(words, word("const", IntVal(r.num))))
        ELSE IF startswith(s, << "%" >>)
        THEN LET r == parse_mod_reg(devs, locs, Tail(s))
             IN  IF r.res.kind # "ok" THEN raised(r.res)
                 ELSE next(Append(words, word("modreg", IntVal(r.num))))
        ELSE IF startswith(s, << ":" >>)
        THEN next(Append(words, word("label", StrVal(Tail(s)))))
        ELSE IF startswith(s, << "@" >>)
        THEN next(Append(words, word("var", StrVal(Tail(s)))))
        ELSE next(Append(words, word("arg", StrVal(s))))

\* the loop over the segments (the outcome of one pass is bound as a value
\* before it is read)
RECURSIVE chop_loop(_, _, _, _)
chop_loop(devs, locs, words, segs) ==
    IF segs = << >>
    THEN [res |-> Returned, words |-> words, hash_break |-> FALSE]
    ELSE CHOOSE out \in
             { IF r.res.kind # "ok" \/ r.hash_break THEN r
               ELSE chop_loop(devs, locs, r.words, Tail(segs)) :
                   r \in { chop_seg(devs, locs, words, Head(segs)) } } : TRUE

chop_line(devs, locs, line) ==
    CHOOSE out \in { chop_loop(devs, locs, << >>, segs) :
                         segs \in { prechop_line(line) } } : TRUE

----------------------------------------------------------------------------
\* The state machine: the two module-level tables, and the last call made on
\* them with its arguments and its outcome.  hasReset records that
\* reset_devices_and_locations() has run; declared records, per slot, the
\* device type of the successful add_device() calls since the last reset.
\* line is the source line in hand, and call the last call made on it or on
\* one of its segments or words, with its outcome.

VARIABLES devices, locations, hasReset, declared, last, line, call

vars == << devices, locations, hasReset, declared, last, line, call >>

\* Arguments the calls are made with.
DeclSlots == { -1, 0, 3, 11, 12 }

DeclTypes == { "tracker", "led", "motor-a", "motor-b", "bumper" }

DeclNames == { NoName, << "B" >>, << "_", "C", "p", "u" >> }

QuerySlots == { 0, 3, 4, 11, 12, 15 }

Operands ==
    { << "3", ":", "s", "t", "a", "t", "u", "s" >>,
      << "B", ":", "S", "T", "A", "T", "U", "S" >>,
      << "4", ":", "s", "t", "a", "t", "u", "s" >>,
      << "b", ":", "2" >>,
      << "c", ":", "a", "c", "t", "i", "o", "n" >>,
      << "_", "c", "p", "u", ":", "p", "c" >>,
      << "3", ":", "q" >>,
      << "z", "z" >>,
      << "z", "z", ":", "0" >>,
      << "3", ":", "1", ":", "2" >>,
      << "3", "0" >>,
      << "3", ":", "1", "2" >> }

\* number of user devices declared so far
user_devices(locs) ==
    Cardinality({ h \in DOMAIN locs : locs[h][2] <= 11 /\ locs[h][1] # "motor_second" })

NoCall ==
    [op |-> "import", loc |-> 0, dtype |-> "", name |-> NoName, text |-> << >>,
     res |-> Returned, num |-> 0, pair |-> << 0, 0 >>]

NoWord == word("", None)

NoLineCall ==
    [op |-> "import", text |-> << >>, w |-> NoWord, res |-> Returned,
     segs |-> << >>, words |-> << >>, hash_break |-> FALSE, val |-> None]

Init ==
    /\ devices = << >>
    /\ locations = << >>
    /\ hasReset = FALSE
    /\ declared = << >>
    /\ last = NoCall
    /\ line = << >>
    /\ call = NoLineCall

ResetDevicesAndLocations ==
    LET r == reset_devices_and_locations(devices, locations)
    IN  /\ devices' = r.devices
        /\ locations' = r.locations
        /\ hasReset' = TRUE
        /\ declared' = << >>
        /\ last' = [NoCall EXCEPT !.op = "reset_devices_and_locations"]
        /\ UNCHANGED << line, call >>

AddDevice ==
    \E loc \in DeclSlots, dtype \in DeclTypes, name \in DeclNames :
        LET r == add_device(devices, locations, loc, dtype, name)
        IN  /\ r.res.kind = "ok" => user_devices(locations) < MaxDevices
            /\ devices' = r.devices
            /\ locations' = r.locations
            /\ declared' = IF r.res.kind = "ok"
                           THEN dict_set(declared, loc, dtype)
                           ELSE declared
            /\ last' = [NoCall EXCEPT !.op = "add_device", !.loc = loc,
                                      !.dtype = dtype, !.name = name,
                                      !.res = r.res]
            /\ UNCHANGED << hasReset, line, call >>

GetLocationTypeAndSize ==
    \E location \in QuerySlots :
        LET r == get_location_type_and_size(locations, location)
        IN  /\ last' = [NoCall EXCEPT !.op = "get_location_type_and_size",
                                      !.loc = location, !.res = r.res,
                                      !.pair = r.pair]
            /\ UNCHANGED << devices, locations, hasReset, declared, line, call >>

ParseModReg ==
    \E smodreg \in Operands :
        LET r == parse_mod_reg(devices, locations, smodreg)
        IN  /\ last' = [NoCall EXCEPT !.op = "parse_mod_reg", !.text = smodreg,
                                      !.res = r.res, !.num = r.num]
            /\ UNCHANGED << devices, locations, hasReset, declared, line, call >>

Next ==
    \/ ResetDevicesAndLocations
    \/ AddDevice
    \/ GetLocationTypeAndSize
    \/ ParseModReg

Spec == Init /\ [][Next]_vars

----------------------------------------------------------------------------
\* The tokenizer, the numeral parser and the word accessors at work on one
\* source line, with the tables as a reset and add_device(3, 'led', 'B')
\* leave them.

\* Longest line made of LineChars.
MaxLineLen == 4

LineChars == { "a", "1", " ", "#", "\"", "\\", "$" }

LedLine ==
    << "l", "e", "d", " ", "r", "e", "d", ",", " ", "o", "n", " ", " ",
          "#", " ", "c", "o", "m", "m", "e", "n", "t" >>

SayLine ==
    << "s", "a", "y", " ", "\"", "h", "i", ",", " ", "\\", "\"", "b", "o",
          "b", "\\", "\"", "\"" >>

OtherLines ==
    { << "l", "e", "d", " ", "$", "1", "2", " ", "1", "2" >>,
      << "l", "e", "d", " ", "$", "\"", "5", "\"", " ", "\"", "5", "\"" >>,
      << "l", "e", "d", " ", "$", "'", "a", "'", " ", "%", "3", ":", "s",
            "t", "a", "t", "u", "s", " ", "@", "v", " ", ":", "l" >>,
      << "a", "\t", "\"", "x", ",", "#", "\t", "y", "\"", " ", "#", "\"",
            "b" >>,
      << "x", " ", "\"", "\"", " ", "\"", "a", "\"", " ", "'", "'", " ", "'",
            "b", "'" >>,
      << "l", "e", "d", " ", "1", "0", "/", "2", " ", "1", "0", "/", "1",
            "6", " ", "'", "A", "'", " ", "1", "2" >>,
      << "a", " ", "\"", "b", "\\", "\n", "c", "\"" >>,
      << "a", " ", "b", "\n" >>,
      << "m", "o", "v", " ", "%", "z", "z", " ", "$", "1" >> }

Lines ==
    UNION { [1..n -> LineChars] : n \in 0..MaxLineLen }
        \cup { LedLine, SayLine } \cup OtherLines

line_tables == add_device(reset_devices, reset_locations, 3, "led", << "B" >>)

LineInit ==
    /\ devices = line_tables.devices
    /\ locations = line_tables.locations
    /\ hasReset = TRUE
    /\ declared = (3 :> "led")
    /\ last = [NoCall EXCEPT !.op = "add_device", !.loc = 3, !.dtype = "led",
                             !.name = << "B" >>, !.res = line_tables.res]
    /\ line \in Lines
    /\ call = NoLineCall

\* the words chop_line makes of the line
line_words ==
    LET r == chop_line(devices, locations, line)
    IN  { r.words[i] : i \in 1..Len(r.words) }

PrechopLine ==
    /\ call' = [NoLineCall EXCEPT !.op = "prechop_line", !.text = line,
                                  !.segs = prechop_line(line)]
    /\ UNCHANGED << devices, locations, hasReset, declared, last, line >>

ChopLine ==
    LET r == chop_line(devices, locations, line)
    IN  /\ call' = [NoLineCall EXCEPT !.op = "chop_line", !.text = line,
                                      !.res = r.res, !.words = r.words,
                                      !.hash_break = r.hash_break]
        /\ UNCHANGED << devices, locations, hasReset, declared, last, line >>

ParseBases ==
    \E i \in 1..Len(prechop_line(line)) :
        LET snum == prechop_line(line)[i]
            r == parse_bases(snum, FALSE)
        IN  /\ call' = [NoLineCall EXCEPT
                            !.op = "parse_bases", !.text = snum, !.res = r.res,
                            !.val = IF r.res.kind = "ok" THEN IntVal(r.num) ELSE None]
            /\ UNCHANGED << devices, locations, hasReset, declared, last, line >>

Num ==
    \E w \in line_words :
        LET r == num(w)
        IN  /\ call' = [NoLineCall EXCEPT !.op = "num", !.w = w,
                                          !.res = r.res, !.val = r.val]
            /\ UNCHANGED << devices, locations, hasReset, declared, last, line >>

Anum ==
    \E w \in line_words :
        LET r == anum(w)
        IN  /\ call' = [NoLineCall EXCEPT !.op = "anum", !.w = w,
                                          !.res = r.res, !.val = r.val]
            /\ UNCHANGED << devices, locations, hasReset, declared, last, line >>

Astr ==
    \E w \in line_words :
        LET r == astr(w)
        IN  /\ call' = [NoLineCall EXCEPT !.op = "astr", !.w = w,
                                          !.res = r.res, !.val = r.val]
            /\ UNCHANGED << devices, locations, hasReset, declared, last, line >>

Amodreg ==
    \E w \in line_words :
        LET r == amodreg(devices, locations, w)
        IN  /\ call' = [NoLineCall EXCEPT !.op = "amodreg", !.w = w,
                                          !.res = r.res, !.val = r.val]
            /\ UNCHANGED << devices, locations, hasReset, declared, last, line >>

LineNext ==
    \/ PrechopLine
    \/ ChopLine
    \/ ParseBases
    \/ Num
    \/ Anum
    \/ Astr
    \/ Amodreg

LineSpec == LineInit /\ [][LineNext]_vars

----------------------------------------------------------------------------
\* Vocabulary of the properties.

Slots == 0..11

AnySlots == -1..12

RecognizedTypes ==
    { "tracker", "irtx", "irrx", "beeper", "motor-a", "motor-b", "led" }

AnyTypes == RecognizedTypes \cup { "bumper" }

AnyNames == DeclNames \cup { << "b" >>, << "m" >> }

SlotAlreadyUsed == AsmError_NO_RET(202)

\* the four reserved slot bindings and the four reserved name bindings
ReservedSlots ==
    { << << "c" >>, << "index", 12 >> >>, << << "d" >>, << "devices", 13 >> >>,
      << << "e" >>, << "timers", 14 >> >>, << << "f" >>, << "cpu", 15 >> >> }

ReservedNames ==
    { << << "_", "i", "n", "d", "e", "x" >>, << "index", 12 >> >>,
      << << "_", "d", "e", "v", "i", "c", "e", "s" >>, << "devices", 13 >> >>,
      << << "_", "t", "i", "m", "e", "r", "s" >>, << "timers", 14 >> >>,
      << << "_", "c", "p", "u" >>, << "cpu", 15 >> >> }

\* a dict as the set of its (key, value) pairs
Bindings(d) == { << k, d[k] >> : k \in DOMAIN d }

\* name n is, in lower case, one of the reserved names
NameReserved(n) == \E b \in ReservedNames : b[1] = lower(n)

\* slot s holds a binding (a device, a continuation marker or a reserved one)
SlotBound(locs, s) == \E h \in DOMAIN locs : locs[h][2] = s

\* The tables change only in a reset and in a successful add_device: a failed
\* add_device (C3) and the two queries leave them as they are.  Every pair of
\* tables the program reaches is therefore the pair of a state in which one
\* of these calls has just been made, and a property of the tables that
\* speaks of every call that could be made on them is evaluated there.
TablesJustSet ==
    \/ last.op = "import"
    \/ last.op = "reset_devices_and_locations"
    \/ last.op = "add_device" /\ last.res.kind = "ok"

\* the call add_device(loc, dtype, name) made in the current state
Declare(loc, dtype, name) == add_device(devices, locations, loc, dtype, name)

----------------------------------------------------------------------------
\* C2: declaring a recognized device type at a slot in 0..11 that already
\* holds a binding fails with error 202 (SlotAlreadyUsed), whatever the type
\* and the name are.
C2_OccupiedSlotRejected ==
    /\ TablesJustSet =>
           \A s \in Slots, t \in RecognizedTypes, n \in AnyNames :
               SlotBound(locations, s) => Declare(s, t, n).res = SlotAlreadyUsed
    /\ (/\ last.op = "add_device"
        /\ last.dtype \in RecognizedTypes
        /\ last.loc \in Slots
        /\ last.res.kind # "ok"
        /\ SlotBound(locations, last.loc)) => last.res = SlotAlreadyUsed

\* a declaration at an occupied slot has just been rejected with 202
C2_Witness ==
    /\ last.op = "add_device"
    /\ last.dtype \in RecognizedTypes
    /\ last.loc \in Slots
    /\ SlotBound(locations, last.loc)
    /\ last.res = SlotAlreadyUsed

----------------------------------------------------------------------------
\* C1: after a reset, every successful add_device(s, t, name) with s in 0..11
\* and t a recognized type makes get_location_type_and_size(s) return
\* (device_types[t], device_storage[t]), right after the call and after any
\* further add_device calls, until the next reset.
C1_DeclaredSlotResolves ==
    hasReset =>
        /\ \A s \in DOMAIN declared :
               get_location_type_and_size(locations, s) =
                   [res |-> Returned,
                    pair |-> << device_types[declared[s]],
                                device_storage[declared[s]] >>]
        /\ TablesJustSet =>
               \A s \in Slots, t \in RecognizedTypes, n \in AnyNames :
                   LET r == Declare(s, t, n)
                   IN  r.res.kind = "ok" =>
                           get_location_type_and_size(r.locations, s) =
                               [res |-> Returned,
                                pair |-> << device_types[t], device_storage[t] >>]

\* slot 3 was declared as a led, another declaration followed, and slot 3 has
\* just been resolved
C1_Witness ==
    /\ hasReset
    /\ 3 \in DOMAIN declared /\ declared[3] = "led"
    /\ 11 \in DOMAIN declared /\ declared[11] = "motor-b"
    /\ last.op = "get_location_type_and_size"
    /\ last.loc = 3
    /\ last.pair = << 10, 4 >>

----------------------------------------------------------------------------
\* C3: a failing add_device call, with whichever of the errors 200..206,
\* leaves devices and locations exactly as they were; a motor rejected for
\* its second slot (206) binds neither slot nor its name.
C3_FailureChangesNothing ==
    [][(last'.op = "add_device" /\ last'.res.kind # "ok") =>
           /\ last'.res.kind = "AsmError"
           /\ last'.res.code \in 200..206
           /\ devices' = devices
           /\ locations' = locations]_vars

\* a named motor has just been rejected for its second slot, and neither its
\* slot nor its name is bound
C3_Witness ==
    /\ last.op = "add_device"
    /\ last.res = AsmError_NO_RET(206)
    /\ last.name # NoName
    /\ ~SlotBound(locations, last.loc)
    /\ lower(last.name) \notin DOMAIN devices

----------------------------------------------------------------------------
\* a name add_device accepts in the current state: none, or one that in lower
\* case is neither a reserved name nor a name in use
NameFree(n) == ~NameReserved(n) /\ lower(n) \notin DOMAIN devices

\* every declaration of a recognized type at slot 0 is rejected with 202
Slot0Rejected(devs, locs) ==
    \A t \in RecognizedTypes, n \in AnyNames :
        add_device(devs, locs, 0, t, n).res = SlotAlreadyUsed

\* declaring motor type t at slot 11 with name n succeeds, binds slot 11 to
\* the motor and slot 0 to the continuation marker, and shuts slot 0
MotorAt11Wraps(t, n) ==
    LET r == Declare(11, t, n)
    IN  /\ r.res.kind = "ok"
        /\ << "b" >> \in DOMAIN r.locations
        /\ r.locations[<< "b" >>] = << t, 11 >>
        /\ << "0" >> \in DOMAIN r.locations
        /\ r.locations[<< "0" >>] = << "motor_second", 0 >>
        /\ Slot0Rejected(r.devices, r.locations)

\* slot 11 holds a motor whose second slot is slot 0
MotorHeldAt11 ==
    /\ << "b" >> \in DOMAIN locations
    /\ locations[<< "b" >>][1] \in { "motor-a", "motor-b" }
    /\ << "0" >> \in DOMAIN locations
    /\ locations[<< "0" >>][1] = "motor_second"

\* C4 as stated: with slots 11 and 0 free, declaring a motor at slot 11
\* succeeds, so that a motor declaration at slot 11 is only ever rejected
\* when slot 11 or slot 0 is in use (a rejected call leaves the table as it
\* was); and once the motor is there every declaration at slot 0 fails with
\* 202.
C4_AsStated ==
    /\ (/\ last.op = "add_device"
        /\ last.loc = 11
        /\ last.dtype \in { "motor-a", "motor-b" }
        /\ last.res.kind # "ok")
           => (SlotBound(locations, 11) \/ SlotBound(locations, 0))
    /\ (MotorHeldAt11 /\ last.op = "add_device" /\ last.loc = 0
           /\ last.dtype \in RecognizedTypes) => last.res = SlotAlreadyUsed

\* C4, amended: with slots 11 and 0 free, declaring a motor at slot 11 with no
\* name, or with a name that in lower case is neither reserved nor in use,
\* succeeds, binds slot 11 to the motor and slot 0 to the continuation
\* marker; until the next reset every declaration of a recognized type at
\* slot 0 then fails with 202.
C4_MotorAt11Wraps ==
    TablesJustSet =>
        /\ \A t \in { "motor-a", "motor-b" }, n \in AnyNames :
               (/\ ~SlotBound(locations, 11)
                /\ ~SlotBound(locations, 0)
                /\ NameFree(n)) => MotorAt11Wraps(t, n)
        /\ MotorHeldAt11 => Slot0Rejected(devices, locations)

\* a motor sits at slot 11 and a declaration at slot 0 has just been rejected
C4_Witness ==
    /\ MotorHeldAt11
    /\ 11 \in DOMAIN declared
    /\ last.op = "add_device"
    /\ last.loc = 0
    /\ last.dtype \in RecognizedTypes
    /\ last.res = SlotAlreadyUsed

----------------------------------------------------------------------------
\* C5 as stated: a tracker declared at any slot in 1..11 fails with 205, in
\* every table state and with any name.
C5_AsStated ==
    (last.op = "add_device" /\ last.dtype = "tracker" /\ last.loc \in 1..11)
        => last.res = AsmError_NO_RET(205)

\* C5, amended: a tracker declared at any slot in 1..11 fails, in every table
\* state and with any name; the error is 205 (InvalidTrackerPlacement) when
\* the slot is free and the name is neither reserved nor in use, and else the
\* error of the earlier check: 202 for a used slot, otherwise 203 or 204 for
\* the name.
C5_TrackerOnlyAtSlot0 ==
    TablesJustSet =>
        \A s \in 1..11, n \in AnyNames :
            LET r == Declare(s, "tracker", n)
            IN  /\ r.res.kind = "AsmError"
                /\ r.res.code =
                       IF SlotBound(locations, s) THEN 202
                       ELSE IF NameReserved(n) THEN 203
                       ELSE IF lower(n) \in DOMAIN devices THEN 204
                       ELSE 205

\* a tracker declared at a free slot other than 0 has just been rejected
C5_Witness ==
    /\ last.op = "add_device"
    /\ last.dtype = "tracker"
    /\ last.loc \in 1..11
    /\ ~SlotBound(locations, last.loc)
    /\ last.res = AsmError_NO_RET(205)

----------------------------------------------------------------------------
\* C6: whatever the tables held before, reset_devices_and_locations() leaves
\* exactly the four reserved slot bindings and the four reserved names, and
\* no user binding.
C6_ResetRestoresBaseline ==
    [][last'.op = "reset_devices_and_locations"
           => /\ Bindings(locations') = ReservedSlots
              /\ Bindings(devices') = ReservedNames]_vars

\* a reset has just run
C6_Witness ==
    /\ last.op = "reset_devices_and_locations"
    /\ Bindings(locations) = ReservedSlots
    /\ Bindings(devices) = ReservedNames

----------------------------------------------------------------------------
\* reserved names in several letter cases
ReservedSpellings ==
    { << "_", "c", "p", "u" >>, << "_", "C", "p", "u" >>, << "_", "C", "P", "U" >>,
      << "_", "i", "n", "d", "e", "x" >>, << "_", "I", "n", "d", "e", "X" >>,
      << "_", "D", "e", "v", "i", "c", "e", "s" >>,
      << "_", "t", "i", "m", "e", "r", "S" >> }

\* once reset has run the reserved bindings are in place
ReservedInPlace ==
    hasReset => /\ ReservedSlots \subseteq Bindings(locations)
                /\ ReservedNames \subseteq Bindings(devices)

\* a declaration at a slot outside 0..11 is rejected
OutsideSlotsRejected ==
    \A s \in { -1, 12, 13, 14, 15 }, t \in AnyTypes, n \in AnyNames :
        Declare(s, t, n).res.kind = "AsmError"

\* a motor accepted at slot 11 takes slot 0 and leaves slot 12 as it was
MotorAt11LeavesSlot12 ==
    \A t \in { "motor-a", "motor-b" }, n \in AnyNames :
        LET r == Declare(11, t, n)
        IN  r.res.kind = "ok" =>
                /\ << "0" >> \in DOMAIN r.locations
                /\ r.locations[<< "0" >>] = << "motor_second", 0 >>
                /\ (<< "c" >> \in DOMAIN r.locations <=> << "c" >> \in DOMAIN locations)
                /\ << "c" >> \in DOMAIN locations
                       => r.locations[<< "c" >>] = locations[<< "c" >>]

\* C7 as stated: once reset has run the reserved bindings stay; slots outside
\* 0..11 are rejected; a motor at 11 takes slot 0, not 12; and a declaration
\* whose name is a reserved name in any letter case is rejected with 203.
C7_AsStated ==
    /\ ReservedInPlace
    /\ TablesJustSet => (OutsideSlotsRejected /\ MotorAt11LeavesSlot12)
    /\ (hasReset /\ last.op = "add_device" /\ last.name \in ReservedSpellings)
           => last.res = AsmError_NO_RET(203)

\* C7, amended: as stated, except that a declaration whose name is a reserved
\* name in any letter case is always rejected, and with 203
\* (ReservedNameCollision) when its device type is recognized and its slot is
\* in 0..11 and free; otherwise with the error of the earlier check (200, 201
\* or 202).
C7_ReservedBindingsStay ==
    /\ ReservedInPlace
    /\ TablesJustSet =>
           /\ OutsideSlotsRejected
           /\ MotorAt11LeavesSlot12
           /\ \A s \in AnySlots, t \in AnyTypes, n \in ReservedSpellings :
                  LET r == Declare(s, t, n)
                  IN  /\ r.res.kind = "AsmError"
                      /\ r.res.code =
                             IF t \notin RecognizedTypes THEN 200
                             ELSE IF s \notin Slots THEN 201
                             ELSE IF SlotBound(locations, s) THEN 202
                             ELSE 203
    /\ (last.op = "add_device" /\ last.name \in ReservedSpellings)
           => last.res.kind = "AsmError"

\* after a reset and a successful declaration, a declaration named "_Cpu" has
\* just been rejected with 203
C7_Witness ==
    /\ hasReset
    /\ DOMAIN declared # { }
    /\ last.op = "add_device"
    /\ last.name = << "_", "C", "p", "u" >>
    /\ last.res = AsmError_NO_RET(203)
    /\ ReservedSlots \subseteq Bindings(locations)
    /\ ReservedNames \subseteq Bindings(devices)

----------------------------------------------------------------------------
\* C8: for every slot index 0..15, get_location_type_and_size returns and
\* never fails: the sentinel (0, 0) for an unbound slot or a continuation
\* marker, and the (type code, storage size) pair of the device type for
\* every other bound slot.
C8_ResolveSlotNeverFails ==
    (last.op = "get_location_type_and_size" /\ last.loc \in 0..15) =>
        /\ last.res.kind = "ok"
        /\ (~SlotBound(locations, last.loc)
               \/ \E h \in DOMAIN locations :
                      locations[h] = << "motor_second", last.loc >>)
               => last.pair = << 0, 0 >>
        /\ \A t \in RecognizedTypes :
               (\E h \in DOMAIN locations : locations[h] = << t, last.loc >>)
                   => last.pair = << device_types[t], device_storage[t] >>

----------------------------------------------------------------------------
\* Bit arithmetic and letter case of the resolver's properties.

RECURSIVE BitOr(_, _)
BitOr(a, b) ==
    IF a = 0 THEN b
    ELSE IF b = 0 THEN a
    ELSE 2 * BitOr(a \div 2, b \div 2) + (IF a % 2 = 1 \/ b % 2 = 1 THEN 1 ELSE 0)

ShiftLeft4(s) == s * 16

UpperCase(s) ==
    [i \in 1..Len(s) |->
        IF \E k \in 1..26 : ascii_lowercase[k] = s[i]
        THEN ascii_uppercase[CHOOSE k \in 1..26 : ascii_lowercase[k] = s[i]]
        ELSE s[i]]

\* the operand '<hex digit of s>:<r>' and its upper-case spelling
SlotOperands(s, r) ==
    LET text == << hexdigits[s + 1] >> \o << ":" >> \o r
    IN  { text, UpperCase(text) }

\* the call parse_mod_reg(smodreg) made in the current state
Resolve(smodreg) == parse_mod_reg(devices, locations, smodreg)

\* slot s holds device type t (no continuation marker)
SlotHolds(s, t) == \E h \in DOMAIN locations : locations[h] = << t, s >>

\* C9 as stated: for every slot s holding a device type t and every register
\* r of t, '<hex digit of s>:<r>' resolves, in any letter case, to
\* (s << 4) | offset(r).
C9_AsStated ==
    last.op = "parse_mod_reg" =>
        \A s \in 0..15, t \in DOMAIN registers :
            SlotHolds(s, t) =>
                \A r \in DOMAIN registers[t] :
                    last.text \in SlotOperands(s, r) =>
                        /\ last.res = Returned
                        /\ last.num = BitOr(ShiftLeft4(s), registers[t][r][1])

\* C9, amended: the same, for every such slot whose hex digit is not also the
\* name of a user device (device names are looked up before locations).
C9_SlotRegisterAddress ==
    /\ TablesJustSet =>
           \A s \in 0..15, t \in DOMAIN registers :
               (SlotHolds(s, t) /\ << hexdigits[s + 1] >> \notin DOMAIN devices) =>
                   \A r \in DOMAIN registers[t] : \A text \in SlotOperands(s, r) :
                       Resolve(text) =
                           [res |-> Returned,
                            num |-> BitOr(ShiftLeft4(s), registers[t][r][1])]
    /\ last.op = "parse_mod_reg" =>
           \A s \in 0..15, t \in DOMAIN registers :
               (SlotHolds(s, t) /\ << hexdigits[s + 1] >> \notin DOMAIN devices) =>
                   \A r \in DOMAIN registers[t] :
                       last.text \in SlotOperands(s, r) =>
                           /\ last.res = Returned
                           /\ last.num = BitOr(ShiftLeft4(s), registers[t][r][1])

\* '3:status' has just been resolved to 0x30 with a led at slot 3
C9_Witness ==
    /\ SlotHolds(3, "led")
    /\ last.op = "parse_mod_reg"
    /\ last.text = << "3", ":", "s", "t", "a", "t", "u", "s" >>
    /\ last.res = Returned
    /\ last.num = 48

----------------------------------------------------------------------------
\* C10 as stated: resolving 'zz', which names neither a device nor a
\* location, fails with 213 (UnknownModuleReference).
C10_AsStated ==
    (last.op = "parse_mod_reg" /\ last.text = << "z", "z" >>)
        => last.res = AsmError_NO_RET(213)

\* C10, amended: resolving 'zz' fails with 215 (MalformedAddressSyntax: the
\* text has no ':'); it is 'zz:<register>' that fails with 213
\* (UnknownModuleReference).
C10_UnknownModule ==
    /\ << "z", "z" >> \notin DOMAIN devices \cup DOMAIN locations
    /\ Resolve(<< "z", "z" >>).res = AsmError_NO_RET(215)
    /\ \A r \in { << "0" >>, << "s", "t", "a", "t", "u", "s" >>, << >> } :
           Resolve(<< "z", "z", ":" >> \o r).res = AsmError_NO_RET(213)
    /\ (last.op = "parse_mod_reg" /\ last.text = << "z", "z" >>)
           => last.res = AsmError_NO_RET(215)
    /\ (last.op = "parse_mod_reg" /\ last.text = << "z", "z", ":", "0" >>)
           => last.res = AsmError_NO_RET(213)

\* 'zz' has just been rejected with 215 in a table that holds a device
C10_Witness ==
    /\ hasReset
    /\ DOMAIN declared # { }
    /\ last.op = "parse_mod_reg"
    /\ last.text = << "z", "z" >>
    /\ last.res = AsmError_NO_RET(215)

----------------------------------------------------------------------------
\* Operands of the form '<subject>:<register>'.

\* the text is not two hexadecimal digits and holds exactly one ':'
SubjectRegisterForm(text) ==
    /\ ~(Len(text) = 2 /\ char_in(text[1], hexdigits) /\ char_in(text[2], hexdigits))
    /\ Cardinality({ i \in 1..Len(text) : text[i] = ":" }) = 1

\* the case-folded text before the ':' and after it
SubjectOf(text) ==
    SubSeq(lower(text), 1, (CHOOSE i \in 1..Len(text) : text[i] = ":") - 1)

RegisterOf(text) ==
    SubSeq(lower(text), (CHOOSE i \in 1..Len(text) : text[i] = ":") + 1, Len(text))

\* the binding (device type, slot) the subject stands for: that of the device
\* of this name or, when no device has the name, that of the location
SubjectBound(subject) == subject \in DOMAIN devices \cup DOMAIN locations

SubjectBinding(subject) ==
    IF subject \in DOMAIN devices THEN devices[subject] ELSE locations[subject]

\* one hexadecimal digit
SingleHexDigit(reg) == Len(reg) = 1 /\ char_in(reg[1], hexdigits)

\* reg is a register name of device type t
RegisterNameOf(t, reg) == t \in DOMAIN registers /\ reg \in DOMAIN registers[t]

UnknownModuleReference == AsmError_NO_RET(213)

UnknownRegisterReference == AsmError_NO_RET(214)

\* the resolver's typed failures
TypedFailures ==
    { AsmError_NO_RET(212), AsmError_NO_RET(215),
      UnknownModuleReference, UnknownRegisterReference }

----------------------------------------------------------------------------
\* C11: once reset has run, every value parse_mod_reg returns for
\* '<subject>:<register>' is a byte in 0..255 whose high nibble is the slot of
\* the resolved subject and whose low nibble is a register offset in 0..15;
\* and a register part that is neither a register name of the subject's
\* device type nor a single hexadecimal digit (an empty one, several hex
\* digits) fails with 214 (UnknownRegisterReference) instead of producing a
\* value.
C11_ByteOfSlotAndOffset ==
    (/\ hasReset
     /\ last.op = "parse_mod_reg"
     /\ SubjectRegisterForm(last.text)
     /\ SubjectBound(SubjectOf(last.text))
     /\ SubjectBinding(SubjectOf(last.text))[1] \in DOMAIN registers) =>
        LET b == SubjectBinding(SubjectOf(last.text))
            reg == RegisterOf(last.text)
        IN  /\ last.res.kind = "ok" =>
                   /\ last.num \in 0..255
                   /\ last.num \div 16 = b[2]
                   /\ last.num % 16 \in 0..15
            /\ (~RegisterNameOf(b[1], reg) /\ ~SingleHexDigit(reg))
                   => last.res = UnknownRegisterReference

----------------------------------------------------------------------------
\* operand subjects and register parts the lookup order is examined with
Subjects ==
    { << "b" >>, << "B" >>, << "a" >>, << "3" >>, << "0" >>, << "4" >>,
      << "c" >>, << "_", "c", "p", "u" >>, << "_", "C", "P", "U" >>,
      << "z", "z" >>, << "m" >> }

\* offset of register part reg in a module of type t: by name, else its digit
OffsetOf(t, reg) ==
    IF RegisterNameOf(t, reg) THEN registers[t][reg][1] ELSE hex_digit_value(reg[1])

\* outcome out is that of the module bound by b = (device type, slot): it is
\* not "unknown module", and when the register part is a register name of
\* b[1] or a single digit, it is the address of that register in the block of
\* slot b[2]
ResolvedAs(out, b, reg) ==
    /\ out.res # UnknownModuleReference
    /\ (b[1] \in DOMAIN registers
            /\ (RegisterNameOf(b[1], reg) \/ SingleHexDigit(reg)))
           => out = [res |-> Returned, num |-> b[2] * 16 + OffsetOf(b[1], reg)]

\* C18: parse_mod_reg looks the subject up among the device names before the
\* location identifiers: a subject that is a device name resolves to the slot
\* and device type of that device even when it is also the digit of a
\* location; a location identifier is used only when no device has the name;
\* and a subject that is neither fails with 213 (UnknownModuleReference).
C18_NamesBeforeLocations ==
    /\ TablesJustSet =>
           \A subject \in Subjects :
               \A reg \in { << "2" >>, << "s", "t", "a", "t", "u", "s" >> } :
                   LET out == Resolve(subject \o << ":" >> \o reg)
                       s == lower(subject)
                   IN  IF s \in DOMAIN devices
                       THEN ResolvedAs(out, devices[s], reg)
                       ELSE IF s \in DOMAIN locations
                       THEN ResolvedAs(out, locations[s], reg)
                       ELSE out.res = UnknownModuleReference
    /\ (last.op = "parse_mod_reg" /\ SubjectRegisterForm(last.text)) =>
           LET s == SubjectOf(last.text)
               out == [res |-> last.res, num |-> last.num]
           IN  IF s \in DOMAIN devices
               THEN ResolvedAs(out, devices[s], RegisterOf(last.text))
               ELSE IF s \in DOMAIN locations
               THEN ResolvedAs(out, locations[s], RegisterOf(last.text))
               ELSE last.res = UnknownModuleReference

\* a device named 'b' sits at slot 3, slot 11 (digit 'b') holds another
\* device, and 'b:2' has just been resolved into the block of slot 3
C18_Witness ==
    /\ << "b" >> \in DOMAIN devices
    /\ devices[<< "b" >>][2] = 3
    /\ << "b" >> \in DOMAIN locations
    /\ locations[<< "b" >>][2] = 11
    /\ last.op = "parse_mod_reg"
    /\ last.text = << "b", ":", "2" >>
    /\ last.res = Returned
    /\ last.num = 50

----------------------------------------------------------------------------
\* names of user devices: the device names that are not reserved
UserNames == { n \in DOMAIN devices : ~name_is_special(n) }

\* slot s holds the continuation marker of a motor
SlotHoldsMarker(s) == SlotHolds(s, "motor_second")

\* C19: in every table state reached from a reset by add_device calls, each
\* slot s bound to motor-a or motor-b has slot (s+1) mod 12 bound to the
\* continuation marker; each continuation marker sits at (s+1) mod 12 of a
\* slot s bound to a motor; no user name maps to a continuation-marker slot;
\* and every user name maps to a slot in 0..11 bound to the device type
\* recorded for the name.
C19_MotorPairsAndNames ==
    hasReset =>
        /\ \A h \in DOMAIN locations :
               /\ h = << hexdigits[locations[h][2] + 1] >>
               /\ locations[h][1] \in { "motor-a", "motor-b" }
                      => SlotHoldsMarker((locations[h][2] + 1) % 12)
               /\ locations[h][1] = "motor_second"
                      => \E s \in Slots :
                             /\ (s + 1) % 12 = locations[h][2]
                             /\ SlotHolds(s, "motor-a") \/ SlotHolds(s, "motor-b")
        /\ \A n \in UserNames :
               /\ devices[n][2] \in Slots
               /\ ~SlotHoldsMarker(devices[n][2])
               /\ SlotHolds(devices[n][2], devices[n][1])
               /\ devices[n][1] \in RecognizedTypes

\* after a reset a motor named 'b' sits at slot 11 with its continuation
\* marker at slot 0, beside a second device
C19_Witness ==
    /\ hasReset
    /\ MotorHeldAt11
    /\ << "b" >> \in UserNames
    /\ devices[<< "b" >>] = locations[<< "b" >>]
    /\ 3 \in DOMAIN declared

----------------------------------------------------------------------------
\* C20: once reset has run, resolving '<subject>:<register>' whose subject is
\* the location digit of a bound slot of any kind, a continuation-marker slot
\* included, either returns an address or ends in one of the resolver's typed
\* failures (212, 213, 214, 215); it fails in no other way.
C20_TypedFailuresOnly ==
    (/\ hasReset
     /\ last.op = "parse_mod_reg"
     /\ SubjectRegisterForm(last.text)
     /\ SubjectOf(last.text) \in DOMAIN locations) =>
        \/ last.res = Returned
        \/ last.res \in TypedFailures

----------------------------------------------------------------------------
\* Vocabulary of the tokenizer's properties: where a line's strings and its
\* comment lie, told from the text alone.

Separators == { " ", "\t", "," }

\* the line's text up to its newline
Content(text) ==
    IF char_in("\n", text)
    THEN SubSeq(text, 1, (CHOOSE i \in 1..Len(text) :
                              text[i] = "\n" /\ \A j \in 1..(i - 1) : text[j] # "\n") - 1)
    ELSE text

\* the mode after character c is read in mode m: "out" of any string, "in" a
\* double-quoted string, or "esc" (in a string, right after a backslash)
ModeAfter(m, c) ==
    IF m = "esc" THEN "in"
    ELSE IF m = "in"
    THEN (IF c = "\\" THEN "esc" ELSE IF c = "\"" THEN "out" ELSE "in")
    ELSE IF c = "\"" THEN "in" ELSE "out"

\* the mode in which character i of the text is read
RECURSIVE ModeAt(_, _)
ModeAt(text, i) ==
    IF i = 1 THEN "out"
    ELSE CHOOSE m \in { ModeAfter(before, text[i - 1]) :
                            before \in { ModeAt(text, i - 1) } } : TRUE

\* position of the first '#' outside a string (past the end when there is none)
CommentStart(text) ==
    LET hashes == { i \in 1..Len(text) : text[i] = "#" /\ ModeAt(text, i) = "out" }
    IN  IF hashes = { } THEN Len(text) + 1
        ELSE CHOOSE i \in hashes : \A j \in hashes : i <= j

\* the line without its newline and its comment
BeforeComment(text) ==
    SubSeq(Content(text), 1, CommentStart(Content(text)) - 1)

\* character i is a separator outside a string
OutsideSeparator(text, i) == text[i] \in Separators /\ ModeAt(text, i) = "out"

\* character i is a backslash that escapes the next character of a string
EscapeMark(text, i) == text[i] = "\\" /\ ModeAt(text, i) = "in"

\* a word of the given type whose value is the text s
StrWord(type, s) == word(type, StrVal(s))

----------------------------------------------------------------------------
\* C13: the tokenizer emits nothing of the line from its first '#' outside a
\* double-quoted string on: segments and words are those of the line cut
\* before that '#', and hold no '#' at all when no '#' comes before it; no
\* segment is empty; outside strings a space, a tab or a comma never is part
\* of a segment; and `led red, on  # comment` gives op 'led', arg 'red',
\* arg 'on'.
C13_CommentAndSeparators ==
    /\ call.op = "prechop_line" =>
           LET t == BeforeComment(line)
           IN  /\ call.segs = prechop_line(t)
               /\ \A i \in 1..Len(call.segs) : call.segs[i] # << >>
               /\ ~char_in("#", t)
                      => \A i \in 1..Len(call.segs) : ~char_in("#", call.segs[i])
               /\ ~char_in("\"", t)
                      => \A i \in 1..Len(call.segs) :
                             \A j \in 1..Len(call.segs[i]) :
                                 call.segs[i][j] \notin Separators
    /\ call.op = "chop_line" =>
           LET r == chop_line(devices, locations, BeforeComment(line))
           IN  /\ call.res = r.res
               /\ call.words = r.words
               /\ ~char_in("#", BeforeComment(line))
                      => \A i \in 1..Len(call.words) :
                             call.words[i].value_.py = "str"
                                 => ~char_in("#", call.words[i].value_.s)
    /\ (call.op = "chop_line" /\ line = LedLine) =>
           /\ call.res = Returned
           /\ call.words = << StrWord("op", << "l", "e", "d" >>),
                              StrWord("arg", << "r", "e", "d" >>),
                              StrWord("arg", << "o", "n" >>) >>

\* `led red, on  # comment` has just been chopped into its three words
C13_Witness ==
    /\ call.op = "chop_line"
    /\ line = LedLine
    /\ CommentStart(line) = 14
    /\ Len(call.words) = 3
    /\ call.words[3] = StrWord("arg", << "o", "n" >>)

----------------------------------------------------------------------------
\* the characters i..j of the text without the backslashes that escape
RECURSIVE Unescaped(_, _, _)
Unescaped(text, i, j) ==
    IF i > j THEN << >>
    ELSE (IF EscapeMark(text, i) THEN << >> ELSE << text[i] >>)
             \o Unescaped(text, i + 1, j)

\* the last position of the run of characters from i on that holds no
\* separator outside a string and ends before the comment
RunEnd(text, i) ==
    CHOOSE j \in i..(CommentStart(text) - 1) :
        /\ \A k \in i..j : ~OutsideSeparator(text, k)
        /\ j + 1 < CommentStart(text) => OutsideSeparator(text, j + 1)

\* the segments from position i on: one per run
RECURSIVE RunsFrom(_, _)
RunsFrom(text, i) ==
    IF i >= CommentStart(text) THEN << >>
    ELSE IF OutsideSeparator(text, i) THEN RunsFrom(text, i + 1)
    ELSE << Unescaped(text, i, RunEnd(text, i)) >>
             \o RunsFrom(text, RunEnd(text, i) + 1)

\* C14: inside a double-quoted string a space, a tab, a comma and a '#' end
\* neither the segment nor the line, a backslash is dropped and the character
\* after it is kept as it is without closing the string, and the closing
\* quote ends the string: the segments are the runs of characters between the
\* separators outside strings, up to the first '#' outside a string; and
\* `say "hi, \"bob\""` gives op 'say', string 'hi, "bob"'.
C14_StringsKeepSeparators ==
    /\ call.op = "prechop_line" => call.segs = RunsFrom(Content(line), 1)
    /\ (call.op = "chop_line" /\ line = SayLine) =>
           /\ call.res = Returned
           /\ call.words = << StrWord("op", << "s", "a", "y" >>),
                              StrWord("string", << "h", "i", ",", " ", "\"",
                                                   "b", "o", "b", "\"" >>) >>

\* `say "hi, \"bob\""` has just been cut into two segments, the second with
\* its comma, blank and escaped quotes
C14_Witness ==
    /\ call.op = "prechop_line"
    /\ line = SayLine
    /\ Len(call.segs) = 2
    /\ call.segs[2] = << "\"", "h", "i", ",", " ", "\"", "b", "o", "b", "\"", "\"" >>

----------------------------------------------------------------------------
\* text wrapped in double quotes
DoubleQuoted(text) ==
    Len(text) >= 2 /\ text[1] = "\"" /\ text[Len(text)] = "\""

QuotingError == AsmError_NO_RET(211)

\* segment i of the line is a '$' constant that chop_line reaches and hands
\* to parse_bases: an operator precedes it, and no '$' or '%' segment does
ConstantReached(segs, i) ==
    /\ i \in 2..Len(segs)
    /\ segs[i][1] = "$"
    /\ ~(Len(segs[i]) = 4 /\ segs[i][2] = "'" /\ segs[i][4] = "'")
    /\ \E j \in 1..(i - 1) : segs[j][1] # ":"
    /\ \A j \in 1..(i - 1) : segs[j][1] \notin { "$", "%" }

\* C12: parse_bases applied to a text wrapped in double quotes fails with 211
\* (QuotingError), on every path that reaches it (num(), anum(), the '$'
\* constants of chop_line), and never with another failure or a value.
C12_DoubleQuotedIsQuotingError ==
    /\ (call.op = "parse_bases" /\ DoubleQuoted(call.text))
           => call.res = QuotingError
    /\ (call.op = "num" /\ call.w.value_.py = "str"
           /\ DoubleQuoted(call.w.value_.s)) => call.res = QuotingError
    /\ (call.op = "anum" /\ call.w.type_ = "arg"
           /\ DoubleQuoted(call.w.value_.s)) => call.res = QuotingError
    /\ (call.op = "chop_line"
           /\ \E i \in 1..Len(prechop_line(line)) :
                  /\ ConstantReached(prechop_line(line), i)
                  /\ DoubleQuoted(Tail(prechop_line(line)[i])))
           => call.res = QuotingError

----------------------------------------------------------------------------
TokenKindMismatch ==
    { AsmError_NO_RET(207), AsmError_NO_RET(208), AsmError_NO_RET(210) }

\* C15: each of the four accessors fails with TokenKindMismatch (207, 208,
\* 210), before it decodes anything, on a word whose type is outside the
\* types it accepts; num() accepts "const" words only.
C15_KindEnforcedBeforeDecoding ==
    /\ (call.op = "num" /\ call.w.type_ # "const")
           => call.res \in TokenKindMismatch
    /\ (call.op = "anum" /\ call.w.type_ \notin { "arg", "const" })
           => call.res \in TokenKindMismatch
    /\ (call.op = "astr" /\ call.w.type_ \notin { "arg", "string" })
           => call.res \in TokenKindMismatch
    /\ (call.op = "amodreg" /\ call.w.type_ \notin { "arg", "modreg" })
           => call.res \in TokenKindMismatch

----------------------------------------------------------------------------
\* C16: num() on a "const" word that chop_line made of a '$' segment, whose
\* value is an int, returns that int unchanged, as anum() does on the same
\* word.
C16_NumReturnsStoredInteger ==
    (call.op = "num" /\ call.w.type_ = "const" /\ call.w.value_.py = "int") =>
        /\ call.res = Returned
        /\ call.val = call.w.value_
        /\ anum(call.w) = [res |-> Returned, val |-> call.val]

----------------------------------------------------------------------------
\* C17: no segment that prechop_line emits begins with '#', so that the '#'
\* test of chop_line never ends the chopping of a line.
C17_HashTestNeverTaken ==
    /\ call.op = "prechop_line" =>
           \A i \in 1..Len(call.segs) :
               call.segs[i] # << >> /\ call.segs[i][1] # "#"
    /\ call.op = "chop_line" => ~call.hash_break

\* a line with a '#' inside a string and a comment after it has just been
\* chopped to its end, the '#' of the string in one of its words
C17_Witness ==
    /\ call.op = "chop_line"
    /\ call.res = Returned
    /\ ~call.hash_break
    /\ \E i \in 1..Len(line) : line[i] = "#" /\ ModeAt(line, i) = "in"
    /\ CommentStart(Content(line)) <= Len(Content(line))
    /\ \E i \in 1..Len(call.words) :
           call.words[i].type_ = "string" /\ char_in("#", call.words[i].value_.s)

====
